---- MODULE Spec2Model ----
(***************************************************************************)
(* Model of src/datahub_extractor.py: the metadata store of                *)
(* USCISDataScraper (metadata / checksums, metadata.json / checksums.json),*)
(* the download loop, cleanup_inconsistencies and the retry loop of        *)
(* scheduled_job_with_retry.                                               *)
(***************************************************************************)
EXTENDS Integers, Sequences, FiniteSets, TLC

(* ---------------- program constants ---------------- *)
MAX_RETRIES == 5
BACKOFF_BASE_SECONDS == 60
BACKOFF_MAX_SECONDS == 1800

\* keys of USCISDataScraper.BASE_URLS, in dict order
BASE_URLS == <<"h1b", "h2a", "h2b">>

(* ---------------- bounds ---------------- *)
NumContents == 2      \* distinct byte contents a file can have
MaxLinks == 2         \* links found on the data hub pages in one cycle
MaxCycles == 2        \* attempts in which the scraper gets constructed
MaxEvents == 2        \* disturbances: external changes of files, process
                      \* kills, I/O errors of _save_*, cycle-level exceptions
MaxFaults == 1        \* I/O errors and exceptions in the runs of SpecIdem
                      \* and SpecMain
RetryLinks == 1       \* links per cycle in the runs of SpecRetry
RetryCycles == 2      \* scrapers constructed in the runs of SpecRetry
RetryEvents == 5      \* I/O errors and exceptions in the runs of SpecRetry
MainLinks == 1        \* links per cycle in the runs of SpecMain
MaxPagesArg == 2      \* largest argument max_pages of discover_data_links
MaxItems == 61        \* largest item count the first page shows
MaxPagerPage == 6     \* largest page number the pager of the first page shows
MaxPageLinks == 2     \* relevant links on one page of the data library

(* ---------------- value spaces ---------------- *)
\* None, the default of an argument
None == 0 - 1

NoFile == 0
\* the bytes a transfer wrote before it failed (an incomplete file)
Partial == 0 - 1
Contents == 1..NumContents

\* A URL is <<data hub page that links to it, directory part of its path,
\* last component of its path>>.  URLSeq lists the modelled URLs in string
\* sort order (json.dump(..., sort_keys=True)).
URLSeq == << <<"h1b", "p", "a.csv">>, <<"h1b", "q", "a.csv">>,
             <<"h2a", "r", "a.csv">>, <<"h2b", "s", "b.csv">> >>
URLs == {URLSeq[i] : i \in 1..Len(URLSeq)}
Filenames == {u[3] : u \in URLs}
Dirs == {BASE_URLS[i] : i \in 1..Len(BASE_URLS)} \cup {"root"}
Paths == Dirs \X Filenames

EmptyMap == [x \in {} |-> 0]
Put(f, k, v) == [x \in (DOMAIN f) \cup {k} |-> IF x = k THEN v ELSE f[x]]
Del(f, k) == [x \in (DOMAIN f) \ {k} |-> f[x]]
SeqDel(s, e) == SelectSeq(s, LAMBDA x : x # e)
SeqToSet(s) == {s[i] : i \in 1..Len(s)}
Min(a, b) == IF a < b THEN a ELSE b

RECURSIVE Pow2(_)
Pow2(n) == IF n = 0 THEN 1 ELSE 2 * Pow2(n - 1)

\* sequences of length <= n of URLs the page of visa type vt links to
RECURSIVE SeqsUpTo(_, _)
SeqsUpTo(vt, n) ==
    IF n = 0 THEN {<<>>}
    ELSE LET S == SeqsUpTo(vt, n - 1)
         IN S \cup {Append(s, u) : s \in {t \in S : Len(t) = n - 1},
                                    u \in {v \in URLs : v[1] = vt}}

VARIABLES
    pc,            \* position of the single worker
    attempt,       \* scheduled_job_with_retry: attempt
    success,       \* scheduled_job_with_retry: success
    sleep_seconds, \* duration of the backoff sleep in progress (0: none)
    failure_file,  \* SCRAPE_FAILURE.txt: "absent", "empty" or "message"
    metadata,      \* self.metadata: url -> record
    mdOrder,       \* key order of the dict self.metadata
    checksums,     \* self.checksums: checksum -> url
    diskMeta,      \* metadata.json
    diskSums,      \* checksums.json
    fs,            \* files under the download root: path -> content
    tmp,           \* content of the temporary file of the current download
    vi,            \* index into BASE_URLS of the visa type being scraped
    links,         \* links of the current page still to download
    download_count,\* scrape_visa_type: download_count
    results,       \* scrape_all: results, as the sequence of counts
    issues,        \* cleanup_inconsistencies: issues
    todo,          \* cleanup_inconsistencies: records still to check
    saves,         \* outcomes of the _save_* calls of the current cycle
    diskAtStart,   \* <<metadata.json, checksums.json>> when the cycle began
    persistFrom,   \* the two files when the last persist began
    persistTo,     \* the two files as that persist would leave them
    killedAt,      \* pc at which the process was killed, while the store
                   \* files are as the killed process left them (else "")
    outcome,       \* how the last finished invocation ended
    limits,        \* the budgets of this behaviour (never changed)
    found,         \* links found so far in the current cycle
    cycles,        \* scrapers constructed so far
    events,        \* disturbances so far
    hist,          \* what the current and the previous cycle were served
                   \* (kept only when limits.track)
    logger,        \* the module-level logger is set (not None)
    slept,         \* the backoff sleeps the running invocation completed
    notified,      \* how send_failure_notification went in the invocation
    pageErrors,    \* a page request failed in the current attempt
    due,           \* the scheduled job is due
    stale,         \* contents of the temporary files that calls of
                   \* _download_file which are over left on disk
    dpc,           \* position of the call of discover_data_links
    max_pages,     \* discover_data_links: the argument max_pages
    total_pages,   \* discover_data_links: total_pages
    page,          \* discover_data_links: page
    consecutive_empty_pages, \* discover_data_links: the counter
    seen_urls,     \* discover_data_links: seen_urls
    discovered_links, \* discover_data_links: the URLs of discovered_links
    requested,     \* page requests the loop of the call made so far
    recent         \* for the last fetched pages, at most max_empty_pages
                   \* of them: whether the page yielded a new link

vars == <<pc, attempt, success, sleep_seconds, failure_file, metadata, mdOrder,
          checksums, diskMeta, diskSums, fs, tmp, vi, links, download_count,
          results, issues, todo, saves, diskAtStart, persistFrom, persistTo, killedAt,
          outcome, limits, found, cycles, events, hist, logger, slept,
          notified, pageErrors, due, stale, dpc, max_pages, total_pages,
          page, consecutive_empty_pages, seen_urls, discovered_links,
          requested, recent>>

schedVars == <<attempt, success, sleep_seconds, failure_file>>
memVars == <<metadata, mdOrder, checksums>>
diskVars == <<diskMeta, diskSums>>
loopVars == <<vi, links, download_count, results, todo>>
budgetVars == <<limits, found, cycles, events>>
ghostVars == <<saves, diskAtStart, persistFrom, persistTo, killedAt, outcome>>
mainVars == <<logger, slept, notified, pageErrors, due>>
discVars == <<dpc, max_pages, total_pages, page, consecutive_empty_pages,
              seen_urls, discovered_links, requested, recent>>

(* ---------------- pure functions ---------------- *)

\* SHA-256 digest of a content; distinct contents have distinct digests
calculate_checksum(k) == 100 + k

\* st_size of a file with content k
SizeOf(k) == (k + 1) \div 2

\* filename = Path(urlparse(link['url']).path).name, or a name derived
\* from the visa type and a hash of the URL when that is empty
DestFilename(visa_type, url) ==
    IF url[3] # "" THEN url[3] ELSE <<visa_type, "md5", url>>

NoIssues == [missing_files |-> <<>>, checksum_mismatches |-> <<>>,
             orphaned_files |-> {}]

Absent == [st |-> "absent", data |-> EmptyMap]
Corrupt == [st |-> "corrupt", data |-> EmptyMap]
Json(d) == [st |-> "json", data |-> d]

\* _load_metadata / _load_checksums: the parsed file, or {} when the file
\* is absent, or {} when it cannot be parsed
load_store(file) ==
    IF file.st = "json" THEN file.data ELSE EmptyMap

SortedKeys(d) == SelectSeq(URLSeq, LAMBDA u : u \in DOMAIN d)

\* _save_metadata / _save_checksums: the content of the target file after
\* the call; the data goes to <name>.tmp, which replaces the target when
\* neither the write nor the replace raised
SaveOutcomes == {"ok", "write_error", "replace_error"}

\* a faulty variant: the data is written into the target file itself
save_in_place(file, data, how) ==
    IF how = "ok" THEN Json(data) ELSE Corrupt

save_store(file, data, how) ==
    IF how = "ok" THEN Json(data) ELSE file

\* a faulty variant: only the URL is looked up
is_duplicate_by_url(md, cs, url, k) ==
    url \in DOMAIN md

\* _is_duplicate(url, filepath) with k the content of filepath
is_duplicate(md, cs, url, k) ==
    \/ url \in DOMAIN md
    \/ calculate_checksum(k) \in DOMAIN cs

(* ---------------- log of what a cycle was served ---------------- *)

\* pages: the link lists _extract_file_links returned, in order;
\* fetches: <<url, content>> of every completed transfer, in order;
\* ok: no transfer and no move to the final path failed;
\* done: the cycle reached its end; store: metadata and checksums then
NoCycle == [pages |-> <<>>, fetches |-> <<>>, ok |-> TRUE, done |-> FALSE,
            store |-> <<EmptyMap, EmptyMap>>]

Log(h) == hist' = IF limits.track THEN h ELSE hist

(* ---------------- initial state ---------------- *)
\* the state before the first run: empty download directory, no store
\* files, no worker running
Start ==
    /\ pc = "idle"
    /\ attempt = 0
    /\ success = FALSE
    /\ sleep_seconds = 0
    /\ failure_file = "absent"
    /\ metadata = EmptyMap
    /\ mdOrder = <<>>
    /\ checksums = EmptyMap
    /\ diskMeta = Absent
    /\ diskSums = Absent
    /\ fs = [p \in Paths |-> NoFile]
    /\ tmp = NoFile
    /\ vi = 1
    /\ links = <<>>
    /\ download_count = 0
    /\ results = <<>>
    /\ issues = NoIssues
    /\ todo = <<>>
    /\ saves = <<>>
    /\ diskAtStart = <<Absent, Absent>>
    /\ persistFrom = <<Absent, Absent>>
    /\ persistTo = <<Absent, Absent>>
    /\ killedAt = ""
    /\ outcome = "none"
    /\ found = 0
    /\ cycles = 0
    /\ events = 0
    /\ hist = [cur |-> NoCycle, prev |-> NoCycle]
    /\ logger = FALSE
    /\ slept = <<>>
    /\ notified = "none"
    /\ pageErrors = FALSE
    /\ due = FALSE
    /\ stale = {}
    /\ dpc = "idle"
    /\ max_pages = None
    /\ total_pages = 0
    /\ page = 0
    /\ consecutive_empty_pages = 0
    /\ seen_urls = {}
    /\ discovered_links = <<>>
    /\ requested = 0
    /\ recent = <<>>

\* the served links and bytes are not logged
Init ==
    /\ Start
    /\ limits = [links |-> MaxLinks, cycles |-> MaxCycles,
                 events |-> MaxEvents, track |-> FALSE]

\* the served links and bytes are logged
InitIdem ==
    /\ Start
    /\ limits = [links |-> MaxLinks, cycles |-> MaxCycles,
                 events |-> MaxFaults, track |-> TRUE]

\* budgets for the runs that exhaust the retries
InitRetry ==
    /\ Start
    /\ limits = [links |-> RetryLinks, cycles |-> RetryCycles,
                 events |-> RetryEvents, track |-> FALSE]

\* budgets for the runs of main
InitMain ==
    /\ Start
    /\ limits = [links |-> MainLinks, cycles |-> MaxCycles,
                 events |-> MaxFaults, track |-> FALSE]

(* ---------------- scheduled_job_with_retry ---------------- *)

\* the scraper object of a finished or failed attempt is dropped
DropScraper ==
    /\ metadata' = EmptyMap
    /\ mdOrder' = <<>>
    /\ checksums' = EmptyMap
    /\ tmp' = NoFile
    /\ vi' = 1
    /\ links' = <<>>
    /\ download_count' = 0
    /\ results' = <<>>
    /\ issues' = NoIssues
    /\ todo' = <<>>

\* a faulty variant: the delay grows linearly
BackoffLinear(n) == Min(BACKOFF_BASE_SECONDS * n, BACKOFF_MAX_SECONDS)

\* duration of the sleep after failed attempt n
Backoff(n) == Min(BACKOFF_BASE_SECONDS * Pow2(n - 1), BACKOFF_MAX_SECONDS)

\* a faulty variant of the except clause: the next attempt follows at once
ExceptClauseNoSleep(n) ==
    /\ sleep_seconds' = 0
    /\ pc' = "loop"

\* the except clause of the retry loop, for the attempt numbered n
ExceptClause(n) ==
    IF n < MAX_RETRIES
    THEN /\ sleep_seconds' = Backoff(n)
         /\ pc' = "backoff"
    ELSE /\ sleep_seconds' = 0
         /\ pc' = "loop"

\* a faulty variant: the job is started while the worker sleeps in a
\* backoff
TriggerWhileAsleep ==
    /\ pc \in {"idle", "backoff"}
    /\ cycles < limits.cycles
    /\ attempt' = 0
    /\ success' = FALSE
    /\ pc' = "loop"
    /\ saves' = <<>>
    /\ killedAt' = ""
    /\ diskAtStart' = <<diskMeta, diskSums>>
    /\ persistFrom' = <<diskMeta, diskSums>>
    /\ persistTo' = <<diskMeta, diskSums>>
    /\ UNCHANGED <<sleep_seconds, failure_file, memVars, diskVars, fs, tmp,
                   loopVars, issues, outcome, limits, found, cycles, events>>
    /\ UNCHANGED <<hist, stale, discVars>>
    /\ slept' = <<>>
    /\ notified' = "none"
    /\ due' = FALSE
    /\ UNCHANGED <<logger, pageErrors>>

\* the periodic trigger (main) calls scheduled_job_with_retry; the model
\* stops triggering once no further scraper can be constructed
Trigger ==
    /\ pc = "idle"
    /\ cycles < limits.cycles
    /\ attempt' = 0
    /\ success' = FALSE
    /\ pc' = "loop"
    /\ saves' = <<>>
    /\ killedAt' = ""
    /\ diskAtStart' = <<diskMeta, diskSums>>
    /\ persistFrom' = <<diskMeta, diskSums>>
    /\ persistTo' = <<diskMeta, diskSums>>
    /\ UNCHANGED <<sleep_seconds, failure_file, memVars, diskVars, fs, tmp,
                   loopVars, issues, outcome, limits, found, cycles, events>>
    /\ UNCHANGED <<hist, stale, discVars>>
    /\ slept' = <<>>
    /\ notified' = "none"
    /\ due' = FALSE
    /\ UNCHANGED <<logger, pageErrors>>

\* loop test, attempt += 1, USCISDataScraper(download_dir) succeeds
BeginAttempt ==
    /\ pc = "loop"
    /\ attempt < MAX_RETRIES /\ ~success
    /\ cycles < limits.cycles
    /\ cycles' = cycles + 1
    /\ found' = 0
    /\ attempt' = attempt + 1
    /\ metadata' = load_store(diskMeta)
    /\ mdOrder' = SortedKeys(load_store(diskMeta))
    /\ checksums' = load_store(diskSums)
    /\ vi' = 1
    /\ links' = <<>>
    /\ download_count' = 0
    /\ results' = <<>>
    /\ issues' = NoIssues
    /\ todo' = <<>>
    /\ tmp' = NoFile
    /\ pc' = "scrape"
    /\ saves' = <<>>
    /\ diskAtStart' = <<diskMeta, diskSums>>
    /\ persistFrom' = <<diskMeta, diskSums>>
    /\ persistTo' = <<diskMeta, diskSums>>
    /\ UNCHANGED <<success, sleep_seconds, failure_file, diskVars, fs,
                   killedAt, outcome, limits, events>>
    /\ UNCHANGED <<stale, discVars>>
    /\ Log([hist EXCEPT !.cur = NoCycle])
    /\ logger' = TRUE
    /\ pageErrors' = FALSE
    /\ UNCHANGED <<slept, notified, due>>

\* loop test, attempt += 1, the constructor raises: in setup_logging
\* (line 73; the module-level logger stays as it was) or when a visa type
\* folder is created (line 77; the logger is set by then)
BeginAttemptFails ==
    /\ pc = "loop"
    /\ attempt < MAX_RETRIES /\ ~success
    /\ events < limits.events
    /\ events' = events + 1
    /\ attempt' = attempt + 1
    /\ ExceptClause(attempt + 1)
    /\ DropScraper
    /\ saves' = <<>>
    /\ diskAtStart' = <<diskMeta, diskSums>>
    /\ persistFrom' = <<diskMeta, diskSums>>
    /\ persistTo' = <<diskMeta, diskSums>>
    /\ UNCHANGED <<success, failure_file, diskVars, fs, killedAt, outcome,
                   limits, found, cycles>>
    /\ UNCHANGED <<hist, stale, discVars>>
    /\ \E in_setup_logging \in BOOLEAN :
          logger' = IF in_setup_logging THEN logger ELSE TRUE
    /\ pageErrors' = FALSE
    /\ UNCHANGED <<slept, notified, due>>

\* time.sleep(sleep_seconds) returns
Wake ==
    /\ pc = "backoff"
    /\ sleep_seconds' = 0
    /\ pc' = "loop"
    /\ UNCHANGED <<attempt, success, failure_file, memVars, diskVars, fs, tmp,
                   loopVars, issues, ghostVars, budgetVars>>
    /\ UNCHANGED <<hist, stale, discVars>>
    /\ slept' = Append(slept, sleep_seconds)
    /\ UNCHANGED <<logger, notified, pageErrors, due>>

\* send_failure_notification, lines 473-476: the file is written; or
\* open() raises and the file stays as it was; or f.write raises and the
\* file stays truncated; the error is logged and swallowed
NotifyOutcomes == {"written", "open_error", "write_error"}

send_failure_notification(file, how) ==
    CASE how = "written" -> "message"
      [] how = "open_error" -> file
      [] how = "write_error" -> "empty"

\* the loop ends: when no attempt succeeded, send_failure_notification is
\* called, whose logger.critical (line 467) raises AttributeError while
\* the module-level logger is None; then return
EndJob ==
    /\ pc = "loop"
    /\ ~(attempt < MAX_RETRIES /\ ~success)
    /\ IF success
       THEN /\ notified' = "none"
            /\ failure_file' = failure_file
       ELSE IF ~logger
            THEN /\ notified' = "raised"
                 /\ failure_file' = failure_file
            ELSE \E how \in NotifyOutcomes :
                    /\ notified' = how
                    /\ failure_file' =
                          send_failure_notification(failure_file, how)
    /\ outcome' = IF success THEN "Succeeded" ELSE "ExhaustedFailed"
    /\ pc' = "idle"
    /\ UNCHANGED <<attempt, success, sleep_seconds, memVars, diskVars, fs,
                   tmp, loopVars, issues, saves, diskAtStart, persistFrom,
                   persistTo, killedAt, budgetVars>>
    /\ UNCHANGED <<hist, stale, discVars>>
    /\ UNCHANGED <<logger, slept, pageErrors, due>>

(* ---------------- scrape_all / scrape_visa_type ---------------- *)

\* scrape_visa_type returns cnt: scrape_all stores it and goes on to the
\* next visa type, or to the saves after the last one
ReturnCount(cnt) ==
    /\ results' = Append(results, cnt)
    /\ download_count' = 0
    /\ links' = <<>>
    /\ vi' = vi + 1
    /\ todo' = todo
    /\ pc' = IF vi = Len(BASE_URLS) THEN "save_metadata" ELSE "scrape"

\* the for loop of scrape_visa_type after one link, cnt downloads so far
NextLink(cnt) ==
    IF Len(links) = 1
    THEN ReturnCount(cnt)
    ELSE /\ links' = Tail(links)
         /\ download_count' = cnt
         /\ pc' = "fetch"
         /\ UNCHANGED <<vi, results, todo>>

\* scrape_visa_type up to the download loop: _extract_file_links returns
\* file_links, the links of the page
Discover ==
    /\ pc = "scrape"
    /\ \E file_links \in SeqsUpTo(BASE_URLS[vi], limits.links - found) :
          /\ found' = found + Len(file_links)
          /\ UNCHANGED <<stale, discVars>>
          /\ Log([hist EXCEPT !.cur.pages = Append(@, file_links)])
          /\ IF file_links = <<>>
             THEN ReturnCount(0)
             ELSE /\ links' = file_links
                  /\ download_count' = 0
                  /\ pc' = "fetch"
                  /\ UNCHANGED <<vi, results, todo>>
    /\ UNCHANGED <<schedVars, memVars, diskVars, fs, tmp, issues, ghostVars,
                   limits, cycles, events>>
    /\ UNCHANGED mainVars

\* _extract_file_links, lines 197-199: the page request or the parsing
\* raises, the error is logged and [] is returned; scrape_visa_type
\* returns 0 (lines 279-282)
DiscoverFails ==
    /\ pc = "scrape"
    /\ events < limits.events
    /\ events' = events + 1
    /\ pageErrors' = TRUE
    /\ ReturnCount(0)
    /\ UNCHANGED <<schedVars, memVars, diskVars, fs, tmp, issues, ghostVars,
                   limits, found, cycles>>
    /\ UNCHANGED <<stale, discVars>>
    /\ Log([hist EXCEPT !.cur.pages = Append(@, <<>>), !.cur.ok = FALSE])
    /\ UNCHANGED <<logger, slept, notified, due>>

\* _download_file, lines 213-231: the response is streamed into a
\* temporary file
FetchOk ==
    /\ pc = "fetch"
    /\ \E k \in Contents :
          /\ tmp' = k
          /\ UNCHANGED <<stale, discVars>>
          /\ Log([hist EXCEPT !.cur.fetches = Append(@, <<Head(links), k>>)])
    /\ pc' = "commit"
    /\ UNCHANGED <<schedVars, memVars, diskVars, fs, loopVars, issues,
                   ghostVars, budgetVars>>
    /\ UNCHANGED mainVars

\* a faulty variant: a failed request ends the loop over the links
FetchFailsAborts ==
    /\ pc = "fetch"
    /\ tmp' = NoFile
    /\ ReturnCount(download_count)
    /\ UNCHANGED <<schedVars, memVars, diskVars, fs, issues, ghostVars,
                   budgetVars>>
    /\ stale' = stale \cup {Partial}
    /\ UNCHANGED discVars
    /\ Log([hist EXCEPT !.cur.ok = FALSE])
    /\ UNCHANGED mainVars

\* a faulty variant: the response is streamed into the final path itself
FetchFailsInPlace ==
    /\ pc = "fetch"
    /\ tmp' = NoFile
    /\ NextLink(download_count)
    /\ LET visa_type == BASE_URLS[vi]
           dest_path == <<visa_type, DestFilename(visa_type, Head(links))>>
       IN fs' = [fs EXCEPT ![dest_path] = Partial]
    /\ UNCHANGED <<schedVars, memVars, diskVars, issues, ghostVars,
                   budgetVars>>
    /\ UNCHANGED <<stale, discVars>>
    /\ Log([hist EXCEPT !.cur.ok = FALSE])
    /\ UNCHANGED mainVars

\* _download_file, lines 213-231 and 254-258: the request or the
\* streaming raises inside the with block, while tmp_path is still None
\* (it is set at line 231); the except clause unlinks nothing, the file
\* NamedTemporaryFile created stays, and the call returns False
FetchFails ==
    /\ pc = "fetch"
    /\ tmp' = NoFile
    /\ NextLink(download_count)
    /\ UNCHANGED <<schedVars, memVars, diskVars, fs, issues, ghostVars,
                   budgetVars>>
    /\ stale' = stale \cup {Partial}
    /\ UNCHANGED discVars
    /\ Log([hist EXCEPT !.cur.ok = FALSE])
    /\ UNCHANGED mainVars

\* the record _download_file stores for a file of content k
NewRecord(filename, k) ==
    [filename |-> filename, checksum |-> calculate_checksum(k),
     size_bytes |-> SizeOf(k)]

\* a faulty variant: the download writes metadata.json at once
DownloadSavesRecord ==
    /\ diskMeta' = Json(metadata')
    /\ UNCHANGED <<schedVars, diskSums, issues, ghostVars, budgetVars>>

\* what _download_file does not touch: the two store files among others
DownloadLeaves ==
    UNCHANGED <<schedVars, diskVars, issues, ghostVars, budgetVars>>

\* _download_file, lines 233-252: duplicate check, move to the final
\* path, update of metadata and checksums
Commit ==
    /\ pc = "commit"
    /\ LET url == Head(links)
           visa_type == BASE_URLS[vi]
           filename == DestFilename(visa_type, url)
           dest_path == <<visa_type, filename>>
       IN IF is_duplicate(metadata, checksums, url, tmp)
          THEN /\ UNCHANGED <<memVars, fs>>
               /\ NextLink(download_count)
          ELSE /\ fs' = [fs EXCEPT ![dest_path] = tmp]
               /\ metadata' = Put(metadata, url, NewRecord(filename, tmp))
               /\ mdOrder' = Append(mdOrder, url)
               /\ checksums' = Put(checksums, calculate_checksum(tmp), url)
               /\ NextLink(download_count + 1)
    /\ tmp' = NoFile
    /\ DownloadLeaves
    /\ UNCHANGED <<hist, stale, discVars>>
    /\ UNCHANGED mainVars

\* _download_file, lines 238-239 and 254-258: tmp_path.replace(dest_path)
\* raises; the temporary file is removed and the call returns False
CommitFails ==
    /\ pc = "commit"
    /\ ~is_duplicate(metadata, checksums, Head(links), tmp)
    /\ tmp' = NoFile
    /\ NextLink(download_count)
    /\ UNCHANGED <<schedVars, memVars, diskVars, fs, issues, ghostVars,
                   budgetVars>>
    /\ UNCHANGED <<stale, discVars>>
    /\ Log([hist EXCEPT !.cur.ok = FALSE])
    /\ UNCHANGED mainVars

\* _download_file, lines 239-258: the file is moved to the final path,
\* then _calculate_checksum or stat raises (the file cannot be read); the
\* call returns False, no record is stored
RecordFails ==
    /\ pc = "commit"
    /\ ~is_duplicate(metadata, checksums, Head(links), tmp)
    /\ events < limits.events
    /\ events' = events + 1
    /\ LET visa_type == BASE_URLS[vi]
           dest_path == <<visa_type, DestFilename(visa_type, Head(links))>>
       IN fs' = [fs EXCEPT ![dest_path] = tmp]
    /\ tmp' = NoFile
    /\ NextLink(download_count)
    /\ UNCHANGED <<schedVars, memVars, diskVars, issues, ghostVars, limits,
                   found, cycles>>
    /\ UNCHANGED <<stale, discVars>>
    /\ Log([hist EXCEPT !.cur.ok = FALSE])
    /\ UNCHANGED mainVars

(* ---------------- persist ---------------- *)

\* _save_metadata, called at position here; there continues the caller
SaveMetadata(here, there) ==
    /\ pc = here
    /\ \E how \in SaveOutcomes :
          /\ how # "ok" => events < limits.events
          /\ events' = IF how = "ok" THEN events ELSE events + 1
          /\ diskMeta' = save_store(diskMeta, metadata, how)
          /\ saves' = Append(saves, how = "ok")
    /\ persistFrom' = <<diskMeta, diskSums>>
    /\ persistTo' = <<Json(metadata), Json(checksums)>>
    /\ pc' = there
    /\ UNCHANGED <<schedVars, memVars, diskSums, fs, tmp, loopVars, issues,
                   diskAtStart, killedAt, outcome, limits, found, cycles>>
    /\ UNCHANGED <<hist, stale, discVars>>
    /\ UNCHANGED mainVars

\* _save_checksums, called at position here
SaveChecksums(here, there) ==
    /\ pc = here
    /\ \E how \in SaveOutcomes :
          /\ how # "ok" => events < limits.events
          /\ events' = IF how = "ok" THEN events ELSE events + 1
          /\ diskSums' = save_store(diskSums, checksums, how)
          /\ saves' = Append(saves, how = "ok")
    /\ pc' = there
    /\ UNCHANGED <<schedVars, memVars, diskMeta, fs, tmp, loopVars, issues,
                   diskAtStart, persistFrom, persistTo, killedAt, outcome,
                   limits, found, cycles>>
    /\ UNCHANGED <<hist, stale, discVars>>
    /\ UNCHANGED mainVars

(* ---------------- cleanup_inconsistencies ---------------- *)

NoPath == <<>>

\* lines 339-350: the first visa type folder holding the filename, else
\* the download root, else nothing
FindFile(files, filename) ==
    LET hits == {i \in 1..Len(BASE_URLS) :
                    files[<<BASE_URLS[i], filename>>] # NoFile}
    IN IF hits # {}
       THEN <<BASE_URLS[CHOOSE i \in hits : \A j \in hits : i <= j], filename>>
       ELSE IF files[<<"root", filename>>] # NoFile
            THEN <<"root", filename>>
            ELSE NoPath

\* a faulty variant of the loop body: the checksum of a missing file
\* stays in the index
CheckRecordKeepsChecksum(st, files, url) ==
    LET meta == st.md[url]
        filepath == FindFile(files, meta.filename)
    IN IF filepath = NoPath
       THEN [md |-> Del(st.md, url),
             ord |-> SeqDel(st.ord, url),
             cs |-> st.cs,
             iss |-> [st.iss EXCEPT !.missing_files =
                                       Append(@, meta.filename)]]
       ELSE LET current_checksum == calculate_checksum(files[filepath])
            IN IF current_checksum # meta.checksum
               THEN [md |-> [st.md EXCEPT ![url].checksum = current_checksum],
                     ord |-> st.ord,
                     cs |-> Put(st.cs, current_checksum, url),
                     iss |-> [st.iss EXCEPT !.checksum_mismatches =
                                               Append(@, meta.filename)]]
               ELSE st

\* a faulty variant of the loop body: a checksum mismatch is reported and
\* the stored checksum stays
CheckRecordReportsOnly(st, files, url) ==
    LET meta == st.md[url]
        filepath == FindFile(files, meta.filename)
    IN IF filepath = NoPath
       THEN [md |-> Del(st.md, url),
             ord |-> SeqDel(st.ord, url),
             cs |-> Del(st.cs, meta.checksum),
             iss |-> [st.iss EXCEPT !.missing_files =
                                       Append(@, meta.filename)]]
       ELSE LET current_checksum == calculate_checksum(files[filepath])
            IN IF current_checksum # meta.checksum
               THEN [st EXCEPT !.iss.checksum_mismatches =
                                  Append(@, meta.filename)]
               ELSE st

\* lines 338-369: the loop body for one (url, meta) of the snapshot;
\* st holds metadata (md), its key order (ord), checksums (cs), issues (iss)
CheckRecord(st, files, url) ==
    LET meta == st.md[url]
        filepath == FindFile(files, meta.filename)
    IN IF filepath = NoPath
       THEN [md |-> Del(st.md, url),
             ord |-> SeqDel(st.ord, url),
             cs |-> Del(st.cs, meta.checksum),
             iss |-> [st.iss EXCEPT !.missing_files =
                                       Append(@, meta.filename)]]
       ELSE LET current_checksum == calculate_checksum(files[filepath])
            IN IF current_checksum # meta.checksum
               THEN [md |-> [st.md EXCEPT ![url].checksum = current_checksum],
                     ord |-> st.ord,
                     cs |-> Put(st.cs, current_checksum, url),
                     iss |-> [st.iss EXCEPT !.checksum_mismatches =
                                               Append(@, meta.filename)]]
               ELSE st

\* lines 371-379: files of the visa type folders no record names
OrphanedFiles(md, files) ==
    LET tracked_files == {md[u].filename : u \in DOMAIN md}
    IN {p \in Paths : /\ p[1] # "root"
                      /\ files[p] # NoFile
                      /\ p[2] \notin tracked_files}

\* a faulty variant: any issue found, an orphaned file too, makes the
\* store be saved
NeedsSaveAnyIssue(iss) ==
    \/ iss.missing_files # <<>> \/ iss.checksum_mismatches # <<>>
    \/ iss.orphaned_files # {}

\* line 382: the condition of the saves
NeedsSave(iss) ==
    iss.missing_files # <<>> \/ iss.checksum_mismatches # <<>>

\* lines 328-337: issues is initialised, list(self.metadata.items()) is
\* taken
CleanupBegin ==
    /\ pc = "cleanup"
    /\ issues' = NoIssues
    /\ todo' = mdOrder
    /\ pc' = "check"
    /\ UNCHANGED <<schedVars, memVars, diskVars, fs, tmp, vi, links,
                   download_count, results, ghostVars, budgetVars>>
    /\ UNCHANGED <<hist, stale, discVars>>
    /\ UNCHANGED mainVars

\* lines 337-369: one iteration of the loop over the records
CleanupCheck ==
    /\ pc = "check"
    /\ todo # <<>>
    /\ LET st == CheckRecord([md |-> metadata, ord |-> mdOrder,
                              cs |-> checksums, iss |-> issues],
                             fs, Head(todo))
       IN /\ metadata' = st.md
          /\ mdOrder' = st.ord
          /\ checksums' = st.cs
          /\ issues' = st.iss
    /\ todo' = Tail(todo)
    /\ UNCHANGED <<pc, schedVars, diskVars, fs, tmp, vi, links,
                   download_count, results, ghostVars, budgetVars>>
    /\ UNCHANGED <<hist, stale, discVars>>
    /\ UNCHANGED mainVars

\* lines 371-382: the orphaned files are listed; the saves follow when a
\* missing file or a checksum mismatch was found
CleanupOrphans ==
    /\ pc = "check"
    /\ todo = <<>>
    /\ issues' = [issues EXCEPT !.orphaned_files = OrphanedFiles(metadata, fs)]
    /\ pc' = IF NeedsSave(issues') THEN "csave_metadata" ELSE "report"
    /\ UNCHANGED <<schedVars, memVars, diskVars, fs, tmp, loopVars, ghostVars,
                   budgetVars>>
    /\ UNCHANGED <<hist, stale, discVars>>
    /\ UNCHANGED mainVars

(* ---------------- rest of the attempt ---------------- *)

\* cleanup_old_logs, generate_report, the failure flag is cleared,
\* success = True (lines 510-525)
Report ==
    /\ pc = "report"
    /\ failure_file' = "absent"
    /\ success' = TRUE
    /\ pc' = "loop"
    /\ DropScraper
    /\ UNCHANGED <<attempt, sleep_seconds, diskVars, fs, ghostVars,
                   budgetVars>>
    /\ UNCHANGED <<stale, discVars>>
    /\ Log([hist EXCEPT !.prev = [hist.cur EXCEPT !.done = TRUE,
                                      !.store = <<metadata, checksums>>]])
    /\ UNCHANGED mainVars

\* generate_report raises (the report file cannot be written): except clause
ReportFails ==
    /\ pc = "report"
    /\ events < limits.events
    /\ events' = events + 1
    /\ ExceptClause(attempt)
    /\ DropScraper
    /\ UNCHANGED <<attempt, success, failure_file, diskVars, fs, ghostVars,
                   limits, found, cycles>>
    /\ UNCHANGED <<stale, discVars>>
    /\ Log([hist EXCEPT !.prev = [hist.cur EXCEPT !.done = TRUE,
                                      !.store = <<metadata, checksums>>]])
    /\ UNCHANGED mainVars

(* ---------------- environment ---------------- *)

\* the temporary files a kill at position at leaves behind: the completely
\* streamed file of the download in progress (content k); during a
\* transfer no file yet or an incomplete one (NamedTemporaryFile is
\* created with delete=False, line 215)
Abandoned(at, k) ==
    CASE at = "commit" -> {{k}}
      [] at = "fetch" -> {{}, {Partial}}
      [] OTHER -> {{}}

\* the process is killed (stop signal); files stay as they are
Interrupt ==
    /\ pc # "idle"
    /\ events < limits.events
    /\ events' = events + 1
    /\ killedAt' = pc
    /\ pc' = "idle"
    /\ sleep_seconds' = 0
    /\ DropScraper
    /\ UNCHANGED <<attempt, success, failure_file, diskVars, fs, saves,
                   diskAtStart, persistFrom, persistTo, outcome, limits,
                   found, cycles>>
    /\ \E left \in Abandoned(pc, tmp) : stale' = stale \cup left
    /\ UNCHANGED discVars
    /\ Log([hist EXCEPT !.prev = NoCycle])
    /\ logger' = FALSE
    /\ UNCHANGED <<slept, notified, pageErrors, due>>

\* between two runs somebody deletes a file under the download root
ExternalDelete ==
    /\ pc = "idle"
    /\ cycles < limits.cycles
    /\ events < limits.events
    /\ \E p \in Paths :
          /\ fs[p] # NoFile
          /\ fs' = [fs EXCEPT ![p] = NoFile]
    /\ events' = events + 1
    /\ UNCHANGED <<pc, schedVars, memVars, diskVars, tmp, loopVars, issues,
                   ghostVars, limits, found, cycles>>
    /\ UNCHANGED <<hist, stale, discVars>>
    /\ UNCHANGED mainVars

\* between two runs somebody writes a file under the download root
ExternalWrite ==
    /\ pc = "idle"
    /\ cycles < limits.cycles
    /\ events < limits.events
    /\ \E p \in Paths, k \in Contents :
          /\ fs[p] # k
          /\ fs' = [fs EXCEPT ![p] = k]
    /\ events' = events + 1
    /\ UNCHANGED <<pc, schedVars, memVars, diskVars, tmp, loopVars, issues,
                   ghostVars, limits, found, cycles>>
    /\ UNCHANGED <<hist, stale, discVars>>
    /\ UNCHANGED mainVars

\* between two runs somebody moves a file under the download root
ExternalMove ==
    /\ pc = "idle"
    /\ cycles < limits.cycles
    /\ events < limits.events
    /\ \E p \in Paths, q \in Paths :
          /\ p # q
          /\ fs[p] # NoFile
          /\ fs' = [fs EXCEPT ![p] = NoFile, ![q] = fs[p]]
    /\ events' = events + 1
    /\ UNCHANGED <<pc, schedVars, memVars, diskVars, tmp, loopVars, issues,
                   ghostVars, limits, found, cycles>>
    /\ UNCHANGED <<hist, stale, discVars>>
    /\ UNCHANGED mainVars

\* metadata.json or checksums.json is damaged between two runs
ExternalCorrupt ==
    /\ pc = "idle"
    /\ cycles < limits.cycles
    /\ events < limits.events
    /\ \/ diskMeta.st = "json" /\ diskMeta' = Corrupt /\ diskSums' = diskSums
       \/ diskSums.st = "json" /\ diskSums' = Corrupt /\ diskMeta' = diskMeta
    /\ events' = events + 1
    /\ killedAt' = ""
    /\ UNCHANGED <<pc, schedVars, memVars, fs, tmp, loopVars, issues, saves,
                   diskAtStart, persistFrom, persistTo, outcome, limits,
                   found, cycles>>
    /\ UNCHANGED <<hist, stale, discVars>>
    /\ UNCHANGED mainVars

\* main, lines 562-572: the time of the monthly job comes, also while
\* the worker is busy
Due ==
    /\ ~due
    /\ due' = TRUE
    /\ UNCHANGED <<pc, schedVars, memVars, diskVars, fs, tmp, loopVars, issues,
                   ghostVars, budgetVars, hist, logger, slept, notified,
                   pageErrors, stale, discVars>>

\* main, line 559: the run at startup
Startup == outcome = "none" /\ Trigger

\* main, lines 570-572: schedule.run_pending() calls the job that is due
RunPending == due /\ Trigger

(* ---------------- specification ---------------- *)
Next ==
    \/ Trigger
    \/ BeginAttempt
    \/ BeginAttemptFails
    \/ Wake
    \/ EndJob
    \/ Discover
    \/ DiscoverFails
    \/ FetchOk
    \/ FetchFails
    \/ Commit
    \/ CommitFails
    \/ RecordFails
    \/ SaveMetadata("save_metadata", "save_checksums")
    \/ SaveChecksums("save_checksums", "cleanup")
    \/ CleanupBegin
    \/ CleanupCheck
    \/ CleanupOrphans
    \/ SaveMetadata("csave_metadata", "csave_checksums")
    \/ SaveChecksums("csave_checksums", "report")
    \/ Report
    \/ ReportFails
    \/ Interrupt
    \/ ExternalDelete
    \/ ExternalWrite
    \/ ExternalMove
    \/ ExternalCorrupt

Spec == Init /\ [][Next]_vars

\* the worker alone: nobody touches the files between two runs and the
\* process is not killed; I/O errors and exceptions still happen
NextIdem ==
    \/ Trigger
    \/ BeginAttempt
    \/ BeginAttemptFails
    \/ Wake
    \/ EndJob
    \/ Discover
    \/ DiscoverFails
    \/ FetchOk
    \/ FetchFails
    \/ Commit
    \/ CommitFails
    \/ RecordFails
    \/ SaveMetadata("save_metadata", "save_checksums")
    \/ SaveChecksums("save_checksums", "cleanup")
    \/ CleanupBegin
    \/ CleanupCheck
    \/ CleanupOrphans
    \/ SaveMetadata("csave_metadata", "csave_checksums")
    \/ SaveChecksums("csave_checksums", "report")
    \/ Report
    \/ ReportFails

SpecIdem == InitIdem /\ [][NextIdem]_vars

\* the worker alone, with failures enough to exhaust the retries
SpecRetry == InitRetry /\ [][NextIdem]_vars

\* main: the run at startup, then the runs of the monthly job
NextMain ==
    \/ Startup
    \/ RunPending
    \/ Due
    \/ BeginAttempt
    \/ BeginAttemptFails
    \/ Wake
    \/ EndJob
    \/ Discover
    \/ DiscoverFails
    \/ FetchOk
    \/ FetchFails
    \/ Commit
    \/ CommitFails
    \/ RecordFails
    \/ SaveMetadata("save_metadata", "save_checksums")
    \/ SaveChecksums("save_checksums", "cleanup")
    \/ CleanupBegin
    \/ CleanupCheck
    \/ CleanupOrphans
    \/ SaveMetadata("csave_metadata", "csave_checksums")
    \/ SaveChecksums("csave_checksums", "report")
    \/ Report
    \/ ReportFails

SpecMain == InitMain /\ [][NextMain]_vars

(* ---------------- USCISScraper.discover_data_links ---------------- *)

\* the extractor's variables, which the second scraper does not touch
extractorVars == <<pc, schedVars, memVars, diskVars, fs, tmp, loopVars,
                   issues, ghostVars, budgetVars, hist, mainVars, stale>>

\* line 160
max_empty_pages == 5

\* get_total_pages, lines 129 and 133: the fallback
FallbackPages == 999

\* the absolute URLs of the data files that match the target forms
DataLinks == {"x", "y"}

RECURSIVE LinkSeqs(_)
LinkSeqs(n) ==
    IF n = 0 THEN {<<>>}
    ELSE LET S == LinkSeqs(n - 1)
         IN S \cup {Append(t, u) : t \in {r \in S : Len(r) = n - 1},
                                    u \in DataLinks}

\* what the first page tells get_total_pages: "1 - 10 of n" (items), or
\* a pager whose largest page number is n (pager), or neither (nothing),
\* or the request raises (error)
Replies ==
    [kind : {"items"}, n : 0..MaxItems]
       \cup [kind : {"pager"}, n : 0..MaxPagerPage]
       \cup [kind : {"nothing", "error"}, n : {0}]

get_total_pages(reply) ==
    CASE reply.kind = "items" -> (reply.n + 9) \div 10
      [] reply.kind = "pager" -> reply.n + 1
      [] OTHER -> FallbackPages

\* lines 199-208: the links of a page that are not in seen, each once,
\* in the order of the page
RECURSIVE NewLinks(_, _)
NewLinks(links_of_page, seen) ==
    IF links_of_page = <<>> THEN <<>>
    ELSE IF Head(links_of_page) \in seen
         THEN NewLinks(Tail(links_of_page), seen)
         ELSE <<Head(links_of_page)>>
                 \o NewLinks(Tail(links_of_page),
                             seen \cup {Head(links_of_page)})

\* a faulty variant: one more empty page is needed
EnoughEmptyPagesLate(n) == n > max_empty_pages

\* line 214
EnoughEmptyPages(n) == n >= max_empty_pages

\* the outcomes of the last max_empty_pages fetched pages
Recent(r, had_new) ==
    LET a == Append(r, had_new)
    IN IF Len(a) > max_empty_pages THEN Tail(a) ELSE a

\* lines 150-160: the call, with an argument max_pages or without
DiscoverCall ==
    /\ dpc = "idle"
    /\ \E arg \in {None} \cup (0..MaxPagesArg) :
          /\ max_pages' = arg
          /\ IF arg = None
             THEN dpc' = "count" /\ total_pages' = total_pages
             ELSE dpc' = "loop" /\ total_pages' = arg
    /\ page' = 0
    /\ consecutive_empty_pages' = 0
    /\ seen_urls' = {}
    /\ discovered_links' = <<>>
    /\ requested' = 0
    /\ recent' = <<>>
    /\ UNCHANGED extractorVars

\* line 151: total_pages = self.get_total_pages()
GetTotalPages ==
    /\ dpc = "count"
    /\ \E reply \in Replies : total_pages' = get_total_pages(reply)
    /\ dpc' = "loop"
    /\ UNCHANGED <<max_pages, page, consecutive_empty_pages, seen_urls,
                   discovered_links, requested, recent>>
    /\ UNCHANGED extractorVars

\* lines 162-222: one iteration of the loop whose request succeeds
FetchPage ==
    /\ dpc = "loop"
    /\ page < total_pages
    /\ \E links_of_page \in LinkSeqs(MaxPageLinks) :
          LET new == NewLinks(links_of_page, seen_urls)
              page_links == Len(new)
          IN /\ seen_urls' = seen_urls \cup SeqToSet(new)
             /\ discovered_links' = discovered_links \o new
             /\ recent' = Recent(recent, page_links > 0)
             /\ IF page_links = 0
                THEN /\ consecutive_empty_pages' = consecutive_empty_pages + 1
                     /\ IF EnoughEmptyPages(consecutive_empty_pages + 1)
                        THEN dpc' = "done" /\ page' = page
                        ELSE dpc' = dpc /\ page' = page + 1
                ELSE /\ consecutive_empty_pages' = 0
                     /\ dpc' = dpc
                     /\ page' = page + 1
    /\ requested' = requested + 1
    /\ UNCHANGED <<max_pages, total_pages>>
    /\ UNCHANGED extractorVars

\* lines 171-173 and 224-227: the request raises RequestException
FetchPageFails ==
    /\ dpc = "loop"
    /\ page < total_pages
    /\ requested' = requested + 1
    /\ page' = page + 1
    /\ UNCHANGED <<dpc, max_pages, total_pages, consecutive_empty_pages,
                   seen_urls, discovered_links, recent>>
    /\ UNCHANGED extractorVars

\* lines 162 and 229-233: the loop test fails, discovered_links is
\* returned
DiscoverReturn ==
    /\ dpc = "loop"
    /\ ~(page < total_pages)
    /\ dpc' = "done"
    /\ UNCHANGED <<max_pages, total_pages, page, consecutive_empty_pages,
                   seen_urls, discovered_links, requested, recent>>
    /\ UNCHANGED extractorVars

NextDiscover ==
    \/ DiscoverCall
    \/ GetTotalPages
    \/ FetchPage
    \/ FetchPageFails
    \/ DiscoverReturn

\* one call of discover_data_links; a call that has begun goes on
SpecDiscover == Init /\ [][NextDiscover]_vars /\ WF_vars(NextDiscover)

(* ---------------- properties ---------------- *)

Records(md, c) == {u \in DOMAIN md : md[u].checksum = c}
DiskPair == <<diskMeta, diskSums>>
PersistPcs == {"save_metadata", "save_checksums", "csave_metadata",
               "csave_checksums"}
DownloadPcs == {"scrape", "fetch", "commit"}

\* a step of _download_file past the streaming (not a kill at that point)
CommitStep == pc = "commit" /\ pc' # "idle"

\* C1: content dedup.  When the bytes fetched for a URL are the bytes of
\* the file of another URL's record (same checksum), the fetched URL is
\* inserted neither into metadata nor into checksums, the checksum index
\* still maps the checksum to the first URL, and exactly one record
\* carries the checksum afterwards.
ContentDedup ==
    [][CommitStep =>
         \A first \in DOMAIN metadata :
            LET url == Head(links)
                c == calculate_checksum(tmp)
                rec == metadata[first]
            IN (/\ first # url
                /\ rec.checksum = c
                /\ fs[<<first[1], rec.filename>>] = tmp)
               => /\ metadata' = metadata
                  /\ checksums' = checksums
                  /\ c \in DOMAIN checksums /\ checksums[c] = first
                  /\ Records(metadata', c) = {first}]_vars

\* C2: no two records of metadata carry the same checksum.
UniqueChecksums ==
    \A u1 \in DOMAIN metadata, u2 \in DOMAIN metadata :
       u1 # u2 => metadata[u1].checksum # metadata[u2].checksum

\* C3: every key c of the checksum index maps to a URL that has a record
\* with checksum c, and no other record has that checksum.
IndexMatchesRecords ==
    \A c \in DOMAIN checksums :
       /\ checksums[c] \in DOMAIN metadata
       /\ Records(metadata, c) = {checksums[c]}

\* C4: idempotence.  When a cycle was served the same link lists and the
\* same bytes as the cycle before it, and no transfer failed in either,
\* it downloads nothing new (scrape_all returns 0 for every visa type, so
\* every link was a duplicate) and ends with the store the cycle before
\* it ended with.
SameAsPrevious ==
    /\ hist.prev.done
    /\ hist.prev.ok /\ hist.cur.ok
    /\ hist.cur.pages = hist.prev.pages
    /\ hist.cur.fetches = hist.prev.fetches
Idempotent ==
    (pc = "report" /\ SameAsPrevious)
       => /\ results = <<0, 0, 0>>
          /\ <<metadata, checksums>> = hist.prev.store

\* the store a restart reads from the two files
ReadBack(pair) == <<load_store(pair[1]), load_store(pair[2])>>

\* C5: atomic persistence.  After a kill during a persist the store read
\* back from the two files is the store as it was before that persist or
\* the store that persist was writing.
AtomicPersist ==
    (pc = "idle" /\ killedAt \in PersistPcs)
       => ReadBack(DiskPair) \in {ReadBack(persistFrom), ReadBack(persistTo)}

\* C6: no write before the first persist.  While no _save_* call of the
\* cycle has been made, also after a kill during a download or a backoff
\* sleep, the two store files are what they were when the cycle began;
\* and a kill changes no file, so that the temporary file of a download
\* in flight is not promoted.
NoSaveYet ==
    (saves = <<>> /\ (pc # "idle" \/ killedAt # ""))
       => DiskPair = diskAtStart
KillStep == pc # "idle" /\ pc' = "idle" /\ killedAt' = pc
InterruptLeavesStore ==
    [](NoSaveYet) /\ [][KillStep => UNCHANGED <<diskMeta, diskSums, fs>>]_vars
InterruptLeavesStore_Witness ==
    /\ pc = "idle"
    /\ killedAt = "commit"
    /\ saves = <<>>
    /\ diskMeta.st = "json" /\ DOMAIN diskMeta.data # {}

\* C7: a cycle never runs on a store file that exists but cannot be
\* parsed.
CorruptLoadFailsCycle ==
    (pc \in DownloadPcs \cup PersistPcs \cup {"cleanup", "check", "report"})
       => (diskAtStart[1].st # "corrupt" /\ diskAtStart[2].st # "corrupt")

\* C8: a cycle in which a _save_* call failed does not succeed.
FailedPersistFailsCycle ==
    (pc = "loop" /\ success) => \A i \in 1..Len(saves) : saves[i]

\* C9: a failed _save_metadata leaves metadata.json as it was, a failed
\* _save_checksums leaves checksums.json as it was.
SaveFailedStep == saves' = Append(saves, FALSE)
FailedSaveKeepsFile ==
    [][SaveFailedStep =>
         /\ pc \in {"save_metadata", "csave_metadata"} => diskMeta' = diskMeta
         /\ pc \in {"save_checksums", "csave_checksums"} => diskSums' = diskSums
      ]_vars
FailedSaveKeepsFile_Witness ==
    /\ pc = "save_checksums"
    /\ saves = <<FALSE>>
    /\ diskMeta.st = "json"
    /\ DOMAIN diskMeta.data # {}
    /\ diskMeta.data # metadata

\* C10: missing file.  The loop iteration for a record whose filename is
\* in no visa type folder and not in the download root removes the record
\* from metadata and its checksum from checksums and appends its filename
\* to missing_files; when the loop is done every remaining record names
\* a file that exists.
FileExists(files, filename) ==
    \E d \in Dirs : files[<<d, filename>>] # NoFile
MissingStep ==
    /\ pc = "check" /\ pc' = "check" /\ todo # <<>>
    /\ ~FileExists(fs, metadata[Head(todo)].filename)
AfterCheckPcs == {"csave_metadata", "csave_checksums", "report"}
MissingFileRemoved ==
    /\ [][MissingStep =>
            LET url == Head(todo)
                meta == metadata[url]
            IN /\ url \notin DOMAIN metadata'
               /\ meta.checksum \notin DOMAIN checksums'
               /\ issues'.missing_files =
                     Append(issues.missing_files, meta.filename)]_vars
    /\ [](pc \in AfterCheckPcs =>
            \A u \in DOMAIN metadata : FileExists(fs, metadata[u].filename))
MissingFileRemoved_Witness ==
    /\ pc = "csave_metadata"
    /\ issues.missing_files # <<>>
    /\ DOMAIN metadata # {}

\* C11: checksum mismatch.  The loop iteration for a record whose file is
\* found with a checksum other than the recorded one sets the record's
\* checksum to the file's, makes the checksum index map that checksum to
\* the record's URL and appends the filename to checksum_mismatches; when
\* the loop is done every remaining record carries the checksum of the
\* file found for it.
FoundChecksum(files, filename) ==
    calculate_checksum(files[FindFile(files, filename)])
MismatchStep ==
    /\ pc = "check" /\ pc' = "check" /\ todo # <<>>
    /\ FileExists(fs, metadata[Head(todo)].filename)
    /\ FoundChecksum(fs, metadata[Head(todo)].filename)
          # metadata[Head(todo)].checksum
MismatchRepaired ==
    /\ [][MismatchStep =>
            LET url == Head(todo)
                meta == metadata[url]
                current == FoundChecksum(fs, meta.filename)
            IN /\ url \in DOMAIN metadata'
               /\ metadata'[url].checksum = current
               /\ current \in DOMAIN checksums'
               /\ checksums'[current] = url
               /\ issues'.checksum_mismatches =
                     Append(issues.checksum_mismatches, meta.filename)]_vars
    /\ [](pc \in AfterCheckPcs =>
            \A u \in DOMAIN metadata :
               metadata[u].checksum = FoundChecksum(fs, metadata[u].filename))
MismatchRepaired_Witness ==
    /\ pc = "csave_metadata"
    /\ issues.checksum_mismatches # <<>>
    /\ DOMAIN metadata # {}

\* every attempt of the invocation failed and the loop is left
Exhausted == pc = "loop" /\ attempt = MAX_RETRIES /\ ~success

\* send_failure_notification writes (or tries to write) the failure file
SignalStep ==
    \/ failure_file' # failure_file /\ failure_file' # "absent"
    \/ notified' # notified /\ notified' \in NotifyOutcomes

\* C12, as stated: when every attempt failed, the failing attempts 1 to 5
\* slept 60, 120, 240, 480 and 960 seconds, and the failure signal is
\* written only after the 5th attempt has failed.
BackoffScheduleAsStated ==
    /\ [](Exhausted => slept = <<60, 120, 240, 480, 960>>)
    /\ [][SignalStep => Exhausted]_vars

\* C12, amended: when every attempt failed, the failing attempts 1 to 4
\* slept 60, 120, 240 and 480 seconds and no sleep follows the 5th failing
\* attempt (there is no sleep of 960 seconds); the failure signal is
\* written only after the 5th attempt has failed.
BackoffSchedule ==
    /\ [](Exhausted => slept = <<60, 120, 240, 480>> /\ sleep_seconds = 0)
    /\ [](pc = "backoff" => attempt < MAX_RETRIES)
    /\ [][SignalStep => Exhausted]_vars
BackoffSchedule_Witness ==
    /\ pc = "idle"
    /\ outcome = "ExhaustedFailed"
    /\ notified = "written"
    /\ failure_file = "message"
    /\ slept = <<60, 120, 240, 480>>

\* the delay owed after failed attempt n, and k delays slept in order
Delay(n) == Min(BACKOFF_BASE_SECONDS * 2^(n - 1), BACKOFF_MAX_SECONDS)
SleptThrough(k) == slept = [i \in 1..k |-> Delay(i)]

\* C13: retry transitions.  An invocation starts with attempt 1; after
\* attempt n < MAX_RETRIES failed the worker sleeps Delay(n) seconds and
\* then runs attempt n + 1; attempt n runs only when the delays of the
\* attempts 1 to n - 1 were slept through; attempts are numbered in steps
\* of one and none starts after a successful one.
RetryTransitions ==
    /\ [](pc = "backoff" => /\ attempt < MAX_RETRIES
                            /\ sleep_seconds = Delay(attempt)
                            /\ SleptThrough(attempt - 1))
    /\ [](pc \notin {"idle", "loop", "backoff"}
            => attempt >= 1 /\ SleptThrough(attempt - 1))
    /\ [](pc = "loop" /\ ~success /\ attempt < MAX_RETRIES
            => SleptThrough(attempt))
    /\ [][pc = "idle" /\ pc' # "idle" => attempt' = 0 /\ ~success']_vars
    /\ [][pc # "idle" /\ attempt' # attempt
            => attempt' = attempt + 1 /\ ~success /\ pc = "loop"]_vars
RetryTransitions_Witness ==
    /\ pc = "scrape"
    /\ attempt = 3
    /\ slept = <<60, 120>>

\* C14: exhaustion.  When attempt MAX_RETRIES failed, no backoff sleep and
\* no further attempt follow: the invocation writes the failure signal
\* and returns; every invocation ends after at least 1 and at most
\* MAX_RETRIES attempts, and the failure signal is written only when all
\* MAX_RETRIES attempts failed.
ExhaustionEndsInvocation ==
    /\ [](attempt <= MAX_RETRIES)
    /\ [](pc = "backoff" => attempt < MAX_RETRIES)
    /\ [][Exhausted => /\ pc' = "idle"
                       /\ attempt' = attempt
                       /\ notified' \in NotifyOutcomes]_vars
    /\ [][pc # "idle" /\ pc' = "idle" => attempt >= 1]_vars
    /\ [][SignalStep => Exhausted]_vars

\* C15: failure signal lifecycle.  After an invocation that ended in
\* Succeeded SCRAPE_FAILURE.txt is absent; after an invocation that ended
\* in ExhaustedFailed it is present with its message, unless writing the
\* file itself failed with an I/O error.
SignalLifecycle ==
    /\ (pc = "idle" /\ killedAt = "" /\ outcome = "Succeeded")
          => failure_file = "absent"
    /\ (pc = "idle" /\ killedAt = "" /\ outcome = "ExhaustedFailed"
          /\ notified \notin {"open_error", "write_error"})
          => failure_file = "message"

\* C16: a cycle in which the request or the parsing of a data hub page
\* failed does not succeed.
DiscoveryErrorFailsCycle ==
    (pc = "loop" /\ success) => ~pageErrors

\* a call of _download_file that returns False for a link that is no
\* duplicate: the count of downloads does not go up
FailedLinkStep ==
    /\ pc \in {"fetch", "commit"} /\ pc' \notin {"idle", "commit"}
    /\ pc = "commit" => ~is_duplicate(metadata, checksums, Head(links), tmp)
    /\ download_count' # download_count + 1
    /\ results' # Append(results, download_count + 1)

\* the loop over the links goes on: to the next link of the page, or
\* after the last link to the next visa type (to the saves after the
\* last visa type)
LinkDone ==
    IF Len(links) > 1
    THEN links' = Tail(links) /\ pc' = "fetch" /\ vi' = vi
    ELSE /\ pc' = IF vi = Len(BASE_URLS) THEN "save_metadata" ELSE "scrape"
         /\ vi' = vi + 1

\* the transfer is complete, the link is still the current one
Fetched == pc = "fetch" /\ pc' = "commit" /\ links' = links

\* C17: a per-file failure does not abort the batch.  Every link of a
\* page is queued, every queued link is processed in order whatever the
\* outcome of the links before it, and a failed link adds no record to
\* metadata and no entry to checksums.
FailedLinkGoesOn ==
    /\ [](pc \in {"fetch", "commit"} => links # <<>>)
    /\ [][pc = "scrape" /\ pc' = "fetch"
            => Len(links') = found' - found]_vars
    /\ [][(pc' # "idle" /\ pc \in {"fetch", "commit"})
            => (Fetched \/ LinkDone)]_vars
    /\ [][FailedLinkStep
            => (metadata' = metadata /\ checksums' = checksums /\ LinkDone)]_vars
FailedLinkGoesOn_Witness ==
    /\ pc = "commit"
    /\ Len(links) = 1
    /\ found = 2
    /\ download_count = 0
    /\ cycles = 1
    /\ events = 0
    /\ metadata = EmptyMap

\* C18: recording guarantee.  When _download_file inserts a record, the
\* file at the final path holds the fetched bytes and the record carries
\* their checksum and size; and when _download_file moves a fetched file
\* to its final path, it inserts a record for it.
RecordStep == pc = "commit" /\ DOMAIN metadata' # DOMAIN metadata
PromoteStep == pc = "commit" /\ fs' # fs
RecordingGuarantee ==
    [][/\ RecordStep =>
            LET url == Head(links)
                rec == metadata'[url]
                path == <<BASE_URLS[vi], rec.filename>>
            IN /\ fs'[path] = tmp /\ tmp # NoFile
               /\ rec.checksum = calculate_checksum(fs'[path])
               /\ rec.size_bytes = SizeOf(fs'[path])
       /\ PromoteStep => RecordStep]_vars

\* C19: scheduled_job_with_retry returns normally, whatever fails.
NeverRaises == notified # "raised"

\* an invocation of scheduled_job_with_retry begins
InvocationStart ==
    /\ pc' = "loop" /\ attempt' = 0
    /\ ~(pc = "loop" /\ attempt = 0)

\* C20: no two cycles overlap.  An invocation begins only when no
\* invocation is in progress: while the worker runs a cycle or sleeps
\* in a backoff, a job that is due stays due and starts nothing.
NoOverlap ==
    /\ [][InvocationStart => pc = "idle"]_vars
    /\ [][due /\ pc # "idle" => due' /\ attempt' >= attempt]_vars
NoOverlap_Witness ==
    /\ due
    /\ pc = "backoff"
    /\ outcome = "none"

\* C21: repeated runs never re-download.  No transfer is completed for a
\* URL that had a record when the cycle began and still has it.
NoRefetch ==
    pc = "commit" =>
        ~(/\ Head(links) \in DOMAIN load_store(diskAtStart[1])
          /\ Head(links) \in DOMAIN metadata)

\* the loop of cleanup_inconsistencies is about to repair the checksum of
\* a record (lines 363-369) with a checksum the index already holds for
\* another URL: an insert under a key that is present
DuplicateInsertAttempted ==
    /\ pc = "check"
    /\ todo # <<>>
    /\ Head(todo) \in DOMAIN metadata
    /\ LET url == Head(todo)
           meta == metadata[url]
           filepath == FindFile(fs, meta.filename)
       IN /\ filepath # NoPath
          /\ calculate_checksum(fs[filepath]) # meta.checksum
          /\ calculate_checksum(fs[filepath]) \in DOMAIN checksums
          /\ checksums[calculate_checksum(fs[filepath])] # url

\* C22: a duplicate insert attempted during a cycle is fatal.  The step
\* that attempts it ends the process: the cycle does not go on, the
\* scheduler does not back off and runs no further attempt.
DuplicateInsertIsFatal ==
    [][DuplicateInsertAttempted => pc' = "idle"]_vars

\* every record's checksum is a key of the checksum index
ChecksumsIndexed(md, cs) == \A u \in DOMAIN md : md[u].checksum \in DOMAIN cs

\* C23: removing a record during reconciliation deletes the index entry
\* of its checksum only if no remaining record has that checksum; when
\* every record's checksum was a key of the index before the removal,
\* every remaining record's checksum is a key of it afterwards.
SharedChecksumKept ==
    [][MissingStep =>
         LET c == metadata[Head(todo)].checksum
         IN /\ (c \in DOMAIN checksums /\ c \notin DOMAIN checksums')
                  => Records(metadata', c) = {}
            /\ ChecksumsIndexed(metadata, checksums)
                  => ChecksumsIndexed(metadata', checksums')]_vars

\* the files under the download root, the root itself and the visa type
\* folders, that are the file of no record; the file of a record is the
\* one cleanup_inconsistencies locates for it (lines 339-350)
Untracked(md, files) ==
    {p \in Paths : /\ files[p] # NoFile
                   /\ \A u \in DOMAIN md : FindFile(files, md[u].filename) # p}

\* C24: orphan classification.  cleanup_inconsistencies reports as
\* orphaned exactly the files under the download root, the root itself
\* and every visa type folder, that are the file of no record; and it
\* deletes and modifies no file.
OrphansExact ==
    /\ [](pc \in AfterCheckPcs => issues.orphaned_files = Untracked(metadata, fs))
    /\ [][(pc \in {"cleanup", "check"}) => fs' = fs]_vars

\* the missing files and the checksum mismatches found so far
Repairs(iss) == <<iss.missing_files, iss.checksum_mismatches>>

\* C25: cleanup_inconsistencies persists the store if and only if it
\* found a missing file or a checksum mismatch.  When it is done, the
\* _save_* calls of the cycle are the two of scrape_all and, exactly when
\* such an issue was found, two more; it writes neither store file
\* itself, and a step that finds no such issue leaves metadata and
\* checksums as they were.
PersistIffRepaired ==
    /\ [](pc = "report" =>
            Len(saves) = IF Repairs(issues) # <<<<>>, <<>>>> THEN 4 ELSE 2)
    /\ [][(pc \in {"cleanup", "check"} /\ pc' # "idle")
            => /\ UNCHANGED <<diskMeta, diskSums>>
               /\ Repairs(issues') = Repairs(issues)
                     => UNCHANGED <<metadata, mdOrder, checksums>>]_vars
PersistIffRepaired_Witness ==
    /\ pc = "report"
    /\ issues.orphaned_files # {}
    /\ Repairs(issues) = <<<<>>, <<>>>>
    /\ DOMAIN metadata # {}
    /\ Len(saves) = 2

\* C26: every failure while streaming a file or computing its checksum
\* discards the temporary file.  When _download_file returns False
\* because of an error, no temporary file of the call is left on disk.
NoTempLeft ==
    [][FailedLinkStep => (tmp' = NoFile /\ stale' = stale)]_vars

\* C27: the final path is written only by renaming a completely streamed
\* temporary file.  No file under the download root ever holds the
\* incomplete content of a transfer, and a step of the worker that
\* changes a file under the download root is the move of the completely
\* streamed temporary file to one path.
WholeFilesOnly ==
    /\ [](\A p \in Paths : fs[p] # Partial)
    /\ [][(pc # "idle" /\ fs' # fs)
            => /\ pc = "commit"
               /\ tmp \in Contents
               /\ \E p \in Paths : fs' = [fs EXCEPT ![p] = tmp]]_vars
WholeFilesOnly_Witness ==
    /\ pc = "report"
    /\ Partial \in stale
    /\ \E p \in Paths : fs[p] \in Contents
    /\ cycles = 1
    /\ events = 0

\* the fetched file is a duplicate: its URL has a record or its checksum
\* is a key of the checksum index
FetchedDuplicate ==
    /\ pc = "commit"
    /\ \/ Head(links) \in DOMAIN metadata
       \/ calculate_checksum(tmp) \in DOMAIN checksums

\* C28: when the fetched file is a duplicate, the temporary file is
\* deleted, no file under the download root is written, and metadata and
\* checksums stay as they were.
DuplicateDiscarded ==
    [][(FetchedDuplicate /\ pc' # "idle")
         => /\ tmp' = NoFile /\ stale' = stale
            /\ fs' = fs
            /\ UNCHANGED <<metadata, mdOrder, checksums>>]_vars
DuplicateDiscarded_Witness ==
    /\ FetchedDuplicate
    /\ Head(links) \notin DOMAIN metadata
    /\ cycles = 2

\* the last max_empty_pages fetched pages yielded no new link
EmptyRun ==
    /\ Len(recent) = max_empty_pages
    /\ \A i \in 1..Len(recent) : ~recent[i]

\* C29: link discovery terminates.  discover_data_links returns, whatever
\* the pages yield (new links, none, a request error); the loop requests
\* at most total_pages pages, every iteration goes on to the next page or
\* ends the loop, and the loop does not go on once max_empty_pages
\* consecutive fetched pages yielded no new link.
DiscoveryTerminates ==
    /\ [](requested <= total_pages /\ page <= total_pages)
    /\ [](dpc = "loop" => ~EmptyRun)
    /\ [][(dpc = "loop") => (dpc' = "done" \/ page' = page + 1)]_vars
    /\ <>(dpc = "done")
DiscoveryTerminates_Witness ==
    /\ dpc = "done"
    /\ page < total_pages
    /\ discovered_links # <<>>
    /\ requested > max_empty_pages + 1

\* the destination path of the record of url: the folder of the visa
\* type whose page links to url, and the recorded filename
RecordPath(md, url) == <<url[1], md[url].filename>>

\* C30: recording a new download never changes the file of another
\* record.  Distinct records refer to distinct destination paths, and
\* the step that records a download leaves the file of every record
\* there was as it is.
DistinctPaths ==
    /\ [](\A u1 \in DOMAIN metadata, u2 \in DOMAIN metadata :
             u1 # u2 => RecordPath(metadata, u1) # RecordPath(metadata, u2))
    /\ [][RecordStep =>
            \A u \in DOMAIN metadata :
               fs'[RecordPath(metadata, u)] = fs[RecordPath(metadata, u)]]_vars

\* C31: no false duplicate.  A fetched file is classified as a duplicate
\* only if its URL has a record or some record carries the checksum of
\* the fetched bytes; a key of the checksum index that no record carries
\* makes no duplicate.
NoFalseDuplicate ==
    (pc = "commit" /\ is_duplicate(metadata, checksums, Head(links), tmp))
       => \/ Head(links) \in DOMAIN metadata
          \/ Records(metadata, calculate_checksum(tmp)) # {}

====
